---- MODULE Spec2Model ----
(***************************************************************************)
(* Model of diy-docker-go: main (src/unnamed/part_000, lines 94-144),      *)
(* the registry client DockerImageClient (src/app/image.go) and chroot     *)
(* (src/unnamed/part_001).                                                 *)
(*                                                                         *)
(* One run of the tool is one behaviour.  The registry, the file system,   *)
(* the tar subprocess and the launched command are the environment: each   *)
(* of their answers is a nondeterministic choice among the outcomes the    *)
(* code distinguishes.  Strings are sequences of one-character strings, so *)
(* that strings.Split is computed and not assumed.                         *)
(*                                                                         *)
(* The closure passed to eg.Go reads the range variable `layer'; the model *)
(* takes the per-iteration binding of Go 1.22 and later, under which       *)
(* task i reads layers[i].                                                 *)
(***************************************************************************)
EXTENDS Integers, Sequences, FiniteSets, TLC

\* ------------------------------------------------------------------ bounds
MaxLayers == 2      \* longest layers array a manifest response carries
MaxManifests == 2   \* longest manifests array a manifest response carries

\* --------------------------------------------------------------- alphabet
Latest == <<"l", "a", "t", "e", "s", "t">>
EmptyStr == <<>>
Digit == <<"1", "2", "3", "4", "5">>

\* runtime.GOOS / runtime.GOARCH of the build (the files are linux-only)
GOOS == "linux"
GOARCH == "amd64"

\* Accept header of image.go:103 and image.go:130
AcceptV2 == "application/vnd.docker.distribution.manifest.v2+json"

SeqsUpTo(S, n) == UNION {[1..k -> S] : k \in 0..n}

\* the image references main may be started with (os.Args[2]), one or
\* more of each shape: no separator, one separator with and without an
\* empty side, two separators
Refs ==
    { <<"a">>, <<"a", "a">>,
      <<"a", ":", "a">>, <<"a", "a", ":", "a">>, <<"a", ":">>, <<":", "a">>,
      <<":">>,
      <<"a", ":", "a", ":", "a">> }

\* bearer tokens the auth endpoint may answer with
Tokens == {"tk1", "tk2"}

\* layer digests and layers of the registry
LayerDigest(i) == <<"d", Digit[i]>>
LayerOf(i) == [mediaType |-> "tar.gzip", size |-> 1, digest |-> LayerDigest(i)]

\* the layers arrays a manifest may carry, up to the naming of the digests:
\* the k-th distinct digest of an array, in order of first occurrence, is
\* LayerDigest(k).  Arrays that repeat a digest are included.
FirstOccurrenceOrder(f) ==
    \A i \in DOMAIN f :
        f[i] = 1 \/ \E j \in 1..(i - 1) : f[j] >= f[i] - 1
LayerLists ==
    { [i \in DOMAIN f |-> LayerOf(f[i])] :
        f \in {g \in SeqsUpTo(1..MaxLayers, MaxLayers) : FirstOccurrenceOrder(g)} }

\* manifest-list entries of the registry: two entries for the running
\* platform (different digests and media types), one for another
\* architecture, one for another OS
ManifestEntries ==
    { [platform |-> [os |-> "linux", arch |-> "amd64"],
       digest |-> <<"m", "1">>, mediaType |-> "mt.docker"],
      [platform |-> [os |-> "linux", arch |-> "amd64"],
       digest |-> <<"m", "2">>, mediaType |-> "mt.oci"],
      [platform |-> [os |-> "linux", arch |-> "arm64"],
       digest |-> <<"m", "3">>, mediaType |-> "mt.docker"],
      [platform |-> [os |-> "windows", arch |-> "amd64"],
       digest |-> <<"m", "4">>, mediaType |-> "mt.oci"] }
ManifestLists == SeqsUpTo(ManifestEntries, MaxManifests)

\* a decoded ManifestListResponse
NoResponse == [manifests |-> <<>>, layers |-> <<>>]
Responses == [manifests : ManifestLists, layers : LayerLists]

\* exit codes a launched command may end with
ChildCodes == {0, 1, 3}

VARIABLES
    imageRef,     \* os.Args[2], the image reference
    pc,           \* position of main
    name, tag,    \* DockerImageClient.name / .tag
    token,        \* DockerImageClient.token
    tokenReqs,    \* token requests issued, in order
    manifestReqs, \* manifest requests issued, in order
    mRes,         \* the decoded manifest response held by getLayers /
                  \* getLayersFromManifests while it decides
    matched,      \* result of findArchMatchingManifest: <<>> or <<entry>>
    layers,       \* the layer list Pull hands to pullLayers
    tpc,          \* position of each layer task
    blobReqs,     \* blob requests issued by each task
    cancelled,    \* the errgroup context is done
    egErr,        \* the errgroup's first error ("" = none)
    tars,         \* digests d whose file <d>.tar exists in the staging dir
    created,      \* tasks whose os.Create of the archive succeeded
    extracted,    \* tasks whose tar extraction completed
    pullErr,      \* what Pull returned ("" = nil, "running" = not yet)
    copied, devMade, chrooted, launched,  \* steps of the bootstrap done
    childCode,    \* cmd.ProcessState.ExitCode() of the launched command
    exited, exitCode                      \* the tool's exit status

vars == <<imageRef, pc, name, tag, token, tokenReqs, manifestReqs, mRes,
          matched, layers, tpc, blobReqs, cancelled, egErr, tars, created,
          extracted, pullErr, copied, devMade, chrooted, launched, childCode,
          exited, exitCode>>

clientVars == <<name, tag, token>>
reqVars == <<tokenReqs, manifestReqs>>
resolveVars == <<mRes, matched, layers>>
taskVars == <<tpc, blobReqs, cancelled, egErr, tars, created, extracted>>
bootVars == <<copied, devMade, chrooted, launched, childCode>>

\* ------------------------------------------------------- pure functions

\* index of the first ":" of s, 0 when there is none
RECURSIVE IndexFrom(_, _)
IndexFrom(s, i) ==
    IF i > Len(s) THEN 0
    ELSE IF s[i] = ":" THEN i
    ELSE IndexFrom(s, i + 1)

\* strings.Split(s, ":"): the substrings between the separators
RECURSIVE Split(_)
Split(s) ==
    LET i == IndexFrom(s, 1) IN
    IF i = 0 THEN <<s>>
    ELSE <<SubSeq(s, 1, i - 1)>> \o Split(SubSeq(s, i + 1, Len(s)))

\* newDockerImageClient: nam and tag are assigned only when the reference
\* splits into exactly one part; otherwise both keep Go's zero value ""
ClientName(ref) ==
    LET parts == Split(ref) IN
    IF Len(parts) = 1 THEN parts[1] ELSE EmptyStr

ClientTagNoDefault(ref) ==
    LET parts == Split(ref) IN
    IF Len(parts) = 2 THEN parts[2] ELSE EmptyStr

ClientTag(ref) ==
    LET parts == Split(ref) IN
    IF Len(parts) = 1 THEN Latest ELSE EmptyStr

\* findArchMatchingManifest: index of the first entry whose os and
\* architecture equal the running ones, 0 when there is none
RECURSIVE FindFrom(_, _)
FindFrom(ms, i) ==
    IF i > Len(ms) THEN 0
    ELSE IF ms[i].platform.os = GOOS /\ ms[i].platform.arch = GOARCH THEN i
    ELSE FindFrom(ms, i + 1)

RECURSIVE FindOsFrom(_, _)
FindOsFrom(ms, i) ==
    IF i > Len(ms) THEN 0
    ELSE IF ms[i].platform.os = GOOS THEN i
    ELSE FindOsFrom(ms, i + 1)

RECURSIVE FindLastFrom(_, _)
FindLastFrom(ms, i) ==
    IF i < 1 THEN 0
    ELSE IF ms[i].platform.os = GOOS /\ ms[i].platform.arch = GOARCH THEN i
    ELSE FindLastFrom(ms, i - 1)

findLastMatchingManifest(ms) == FindLastFrom(ms, Len(ms))
findOsMatchingManifest(ms) == FindOsFrom(ms, 1)
findArchMatchingManifest(ms) == FindFrom(ms, 1)

\* the requests the client builds
TokenRequest == [repo |-> name]
ManifestRequest(ref) ==
    [repo |-> name, ref |-> ref, auth |-> token, accept |-> AcceptV2]
BlobRequestNoAuth(i) == [repo |-> name, digest |-> layers[i].digest, auth |-> ""]
BlobRequest(i) == [repo |-> name, digest |-> layers[i].digest, auth |-> token]

\* ProcessState.ExitCode() when the command never started or was killed
\* by a signal
NoExitCode == 0 - 1

\* os.Exit(code): the status the parent sees is the low byte
ExitStatus(code) == code % 256

\* ------------------------------------------------------------------ Init
Init ==
    /\ imageRef \in Refs
    /\ pc = "mkdirTemp"
    /\ name = EmptyStr
    /\ tag = EmptyStr
    /\ token = ""
    /\ tokenReqs = <<>>
    /\ manifestReqs = <<>>
    /\ mRes = NoResponse
    /\ matched = <<>>
    /\ layers = <<>>
    /\ tpc = <<>>
    /\ blobReqs = <<>>
    /\ cancelled = FALSE
    /\ egErr = ""
    /\ tars = {}
    /\ created = {}
    /\ extracted = {}
    /\ pullErr = "running"
    /\ copied = FALSE
    /\ devMade = FALSE
    /\ chrooted = FALSE
    /\ launched = FALSE
    /\ childCode = NoExitCode
    /\ exited = FALSE
    /\ exitCode = 0

\* os.Exit(code) in main
Exit(code) ==
    /\ pc' = "exited"
    /\ exited' = TRUE
    /\ exitCode' = ExitStatus(code)

\* Pull returns err to main: main prints it and exits with status 1
PullFails(err) ==
    /\ pullErr' = err
    /\ Exit(1)

\* ------------------------------------------------------------ main, Pull

\* main: os.MkdirTemp
MkdirTemp ==
    /\ pc = "mkdirTemp"
    /\ \E ok \in BOOLEAN :
         IF ok
         THEN /\ pc' = "newClient"
              /\ UNCHANGED <<exited, exitCode>>
         ELSE Exit(1)
    /\ UNCHANGED <<imageRef, clientVars, reqVars, resolveVars, taskVars,
                   pullErr, bootVars>>

\* main: newDockerImageClient(imageName, dir)
NewClient ==
    /\ pc = "newClient"
    /\ name' = ClientName(imageRef)
    /\ tag' = ClientTag(imageRef)
    /\ pc' = "authorize"
    /\ UNCHANGED <<imageRef, token, reqVars, resolveVars, taskVars, pullErr,
                   bootVars, exited, exitCode>>

\* Pull going on after a failed authorize
AuthorizeUnchecked ==
    /\ pc = "authorize"
    /\ \E res \in {"newRequest", "transport", "status", "decode", "ok"} :
         /\ tokenReqs' = IF res = "newRequest" THEN tokenReqs
                         ELSE Append(tokenReqs, TokenRequest)
         /\ IF res = "ok" THEN \E t \in Tokens : token' = t
                          ELSE UNCHANGED token
    /\ pc' = "getLayers"
    /\ UNCHANGED <<imageRef, name, tag, manifestReqs, resolveVars, taskVars,
                   pullErr, bootVars, exited, exitCode>>

\* Pull: d.authorize().  doGet fails on request construction, transport
\* error, non-200 status or JSON decode error; on success the decoded
\* token is stored.
Authorize ==
    /\ pc = "authorize"
    /\ \E res \in {"newRequest", "transport", "status", "decode", "ok"} :
         IF res = "newRequest"
         THEN /\ PullFails("authorize")
              /\ UNCHANGED <<token, tokenReqs>>
         ELSE /\ tokenReqs' = Append(tokenReqs, TokenRequest)
              /\ IF res = "ok"
                 THEN /\ \E t \in Tokens : token' = t
                      /\ pc' = "getLayers"
                      /\ UNCHANGED <<pullErr, exited, exitCode>>
                 ELSE /\ PullFails("authorize")
                      /\ UNCHANGED token
    /\ UNCHANGED <<imageRef, name, tag, manifestReqs, resolveVars, taskVars,
                   bootVars>>

\* getLayers, lines 100-108: the first manifest request, for (name, tag)
GetLayersFetch ==
    /\ pc = "getLayers"
    /\ \E res \in {"newRequest", "transport", "status", "decode", "ok"} :
         IF res = "newRequest"
         THEN /\ PullFails("get layers")
              /\ UNCHANGED <<manifestReqs, mRes>>
         ELSE /\ manifestReqs' = Append(manifestReqs, ManifestRequest(tag))
              /\ IF res = "ok"
                 THEN /\ \E r \in Responses : mRes' = r
                      /\ pc' = "getLayersDecide"
                      /\ UNCHANGED <<pullErr, exited, exitCode>>
                 ELSE /\ PullFails("get layers")
                      /\ UNCHANGED mRes
    /\ UNCHANGED <<imageRef, clientVars, tokenReqs, matched, layers,
                   taskVars, bootVars>>

\* pullLayers ranging over layers[1:]
StartPullTail(ls) ==
    /\ layers' = Tail(ls)
    /\ tpc' = [i \in 1..(Len(ls) - 1) |-> "unspawned"]
    /\ blobReqs' = [i \in 1..(Len(ls) - 1) |-> <<>>]
    /\ pc' = "pullLayers"

\* the task state pullLayers starts from: one unspawned task per layer
StartPull(ls) ==
    /\ layers' = ls
    /\ tpc' = [i \in 1..Len(ls) |-> "unspawned"]
    /\ blobReqs' = [i \in 1..Len(ls) |-> <<>>]
    /\ pc' = "pullLayers"

\* getLayers, lines 109-119: a manifest list is resolved by platform, a
\* direct manifest must carry layers
GetLayersDecide ==
    /\ pc = "getLayersDecide"
    /\ IF Len(mRes.manifests) > 0
       THEN LET idx == findArchMatchingManifest(mRes.manifests) IN
            IF idx = 0
            THEN /\ PullFails("no manifest found")
                 /\ mRes' = NoResponse
                 /\ UNCHANGED <<matched, layers, tpc, blobReqs>>
            ELSE /\ matched' = <<mRes.manifests[idx]>>
                 /\ pc' = "fromManifests"
                 /\ UNCHANGED <<mRes, layers, tpc, blobReqs, pullErr, exited,
                                exitCode>>
       ELSE IF Len(mRes.layers) = 0
            THEN /\ PullFails("no layers found in manifest")
                 /\ mRes' = NoResponse
                 /\ UNCHANGED <<matched, layers, tpc, blobReqs>>
            ELSE /\ StartPull(mRes.layers)
                 /\ mRes' = NoResponse
                 /\ UNCHANGED <<matched, pullErr, exited, exitCode>>
    /\ UNCHANGED <<imageRef, clientVars, reqVars, cancelled, egErr, tars,
                   created, extracted, bootVars>>

\* getLayersFromManifests, lines 127-135: the second manifest request,
\* addressed by the matched entry's digest
FromManifestsFetch ==
    /\ pc = "fromManifests"
    /\ \E res \in {"newRequest", "transport", "status", "decode", "ok"} :
         IF res = "newRequest"
         THEN /\ PullFails("get layers from manifests")
              /\ UNCHANGED <<manifestReqs, mRes>>
         ELSE /\ manifestReqs' =
                    Append(manifestReqs, ManifestRequest(matched[1].digest))
              /\ IF res = "ok"
                 THEN /\ \E r \in Responses : mRes' = r
                      /\ pc' = "fromManifestsDecide"
                      /\ UNCHANGED <<pullErr, exited, exitCode>>
                 ELSE /\ PullFails("get layers from manifests")
                      /\ UNCHANGED mRes
    /\ UNCHANGED <<imageRef, clientVars, tokenReqs, matched, layers,
                   taskVars, bootVars>>

\* getLayersFromManifests, lines 136-139
FromManifestsDecide ==
    /\ pc = "fromManifestsDecide"
    /\ mRes' = NoResponse
    /\ IF Len(mRes.layers) = 0
       THEN /\ PullFails("no layers found in image manifest")
            /\ UNCHANGED <<layers, tpc, blobReqs>>
       ELSE /\ StartPull(mRes.layers)
            /\ UNCHANGED <<pullErr, exited, exitCode>>
    /\ matched' = <<>>
    /\ UNCHANGED <<imageRef, clientVars, reqVars, cancelled, egErr, tars,
                   created, extracted, bootVars>>

\* ------------------------------------------------------------ pullLayers

Tasks == DOMAIN tpc
Finished == {"ok", "skipped", "failed"}

\* case <-ctx.Done() of the select at the head of each task
CtxNeverDone == FALSE
CtxDone == cancelled

\* errgroup: a task that returns a non-nil error records it if it is the
\* first and cancels the group's context; the task is then done
TaskFails(i, err) ==
    /\ tpc' = [tpc EXCEPT ![i] = "failed"]
    /\ egErr' = IF egErr = "" THEN err ELSE egErr
    /\ cancelled' = TRUE

\* a task moves on without error
TaskGoes(i, to) ==
    /\ tpc' = [tpc EXCEPT ![i] = to]
    /\ UNCHANGED <<egErr, cancelled>>

mainRest == <<imageRef, pc, clientVars, reqVars, resolveVars, pullErr,
              bootVars, exited, exitCode>>

\* the range loop of pullLayers: eg.Go starts the task of the next layer
Spawn ==
    /\ pc = "pullLayers"
    /\ \E i \in Tasks :
         /\ tpc[i] = "unspawned"
         /\ \A j \in 1..(i - 1) : tpc[j] # "unspawned"
         /\ tpc' = [tpc EXCEPT ![i] = "spawned"]
    /\ UNCHANGED <<mainRest, blobReqs, cancelled, egErr, tars, created,
                   extracted>>

\* lines 155-158: a task that finds the context done returns nil
TaskSelect(i) ==
    /\ tpc[i] = "spawned"
    /\ IF CtxDone THEN TaskGoes(i, "skipped") ELSE TaskGoes(i, "checked")
    /\ UNCHANGED <<mainRest, blobReqs, tars, created, extracted>>

\* lines 159-165: build the blob request and hand it to the HTTP client
TaskRequest(i) ==
    /\ tpc[i] = "checked"
    /\ \E ok \in BOOLEAN :
         IF ok
         THEN /\ blobReqs' = [blobReqs EXCEPT ![i] = Append(@, BlobRequest(i))]
              /\ TaskGoes(i, "inflight")
         ELSE /\ TaskFails(i, "pull layers")
              /\ UNCHANGED blobReqs
    /\ UNCHANGED <<mainRest, tars, created, extracted>>

\* lines 165-172: the blob response
TaskResponse(i) ==
    /\ tpc[i] = "inflight"
    /\ \E res \in {"transport", "status", "ok"} :
         IF res = "ok"
         THEN TaskGoes(i, "create")
         ELSE TaskFails(i, "pull layers")
    /\ UNCHANGED <<mainRest, blobReqs, tars, created, extracted>>

\* saveLayer, lines 187-192: os.Create of <digest>.tar
TaskCreate(i) ==
    /\ tpc[i] = "create"
    /\ \E ok \in BOOLEAN :
         IF ok
         THEN /\ tars' = tars \cup {layers[i].digest}
              /\ created' = created \cup {i}
              /\ TaskGoes(i, "copy")
         ELSE /\ TaskFails(i, "save layer")
              /\ UNCHANGED <<tars, created>>
    /\ UNCHANGED <<mainRest, blobReqs, extracted>>

\* saveLayer deleting the archive when io.Copy fails
TaskCopyCleansUp(i) ==
    /\ tpc[i] = "copy"
    /\ \E ok \in BOOLEAN :
         IF ok
         THEN /\ TaskGoes(i, "extract")
              /\ UNCHANGED tars
         ELSE /\ TaskFails(i, "save layer")
              /\ tars' = tars \ {layers[i].digest}
    /\ UNCHANGED <<mainRest, blobReqs, created, extracted>>

\* saveLayer, lines 194-197: io.Copy of the body into the file
TaskCopy(i) ==
    /\ tpc[i] = "copy"
    /\ \E ok \in BOOLEAN :
         IF ok THEN TaskGoes(i, "extract") ELSE TaskFails(i, "save layer")
    /\ UNCHANGED <<mainRest, blobReqs, tars, created, extracted>>

\* extraction held back until every earlier layer is extracted
TaskExtractInOrder(i) ==
    /\ tpc[i] = "extract"
    /\ \A j \in 1..(i - 1) : j \in extracted
    /\ \E ok \in BOOLEAN :
         IF ok /\ layers[i].digest \in tars
         THEN /\ extracted' = extracted \cup {i}
              /\ TaskGoes(i, "remove")
         ELSE /\ TaskFails(i, "save layer")
              /\ UNCHANGED extracted
    /\ UNCHANGED <<mainRest, blobReqs, tars, created>>

\* extractLayer going on to os.Remove after a failed tar
TaskExtractUnchecked(i) ==
    /\ tpc[i] = "extract"
    /\ \E ok \in BOOLEAN :
         extracted' = IF ok /\ layers[i].digest \in tars
                      THEN extracted \cup {i} ELSE extracted
    /\ TaskGoes(i, "remove")
    /\ UNCHANGED <<mainRest, blobReqs, tars, created>>

\* extractLayer, lines 202-205: tar xvvf <file> -C dir; tar cannot succeed
\* on a file that is not there
TaskExtract(i) ==
    /\ tpc[i] = "extract"
    /\ \E ok \in BOOLEAN :
         IF ok /\ layers[i].digest \in tars
         THEN /\ extracted' = extracted \cup {i}
              /\ TaskGoes(i, "remove")
         ELSE /\ TaskFails(i, "save layer")
              /\ UNCHANGED extracted
    /\ UNCHANGED <<mainRest, blobReqs, tars, created>>

\* extractLayer, line 206: os.Remove of the archive; removing a file that
\* is not there is an error
TaskRemove(i) ==
    /\ tpc[i] = "remove"
    /\ \E ok \in BOOLEAN :
         IF ok /\ layers[i].digest \in tars
         THEN /\ tars' = tars \ {layers[i].digest}
              /\ TaskGoes(i, "ok")
         ELSE /\ TaskFails(i, "save layer")
              /\ UNCHANGED tars
    /\ UNCHANGED <<mainRest, blobReqs, created, extracted>>

\* eg.Wait returns once every task started by eg.Go has returned
WaitReturnsEarly == \E i \in Tasks : tpc[i] \in Finished
WaitReturnsOnSuccess == \A i \in Tasks : tpc[i] = "ok"
WaitReturns == \A i \in Tasks : tpc[i] \in Finished

\* what eg.Wait returns: the group's first error, "" for nil
WaitErrDropped == ""
WaitErr == egErr

\* lines 180-183 and Pull's return into main, lines 115-119
Wait ==
    /\ pc = "pullLayers"
    /\ WaitReturns
    /\ IF WaitErr # ""
       THEN PullFails(WaitErr)
       ELSE /\ pullErr' = ""
            /\ pc' = "chrootCopy"
            /\ UNCHANGED <<exited, exitCode>>
    /\ UNCHANGED <<imageRef, clientVars, reqVars, resolveVars, taskVars,
                   bootVars>>

\* ------------------------------------------------------- chroot and run

\* chroot going on after a failed copyFile
ChrootCopyUnchecked ==
    /\ pc = "chrootCopy"
    /\ \E ok \in BOOLEAN : copied' = ok
    /\ pc' = "chrootMkdir"
    /\ UNCHANGED <<imageRef, clientVars, reqVars, resolveVars, taskVars,
                   pullErr, devMade, chrooted, launched, childCode, exited,
                   exitCode>>

\* chroot, lines 15-18: copyFile(command, dir/command)
ChrootCopy ==
    /\ pc = "chrootCopy"
    /\ \E ok \in BOOLEAN :
         IF ok
         THEN /\ copied' = TRUE
              /\ pc' = "chrootMkdir"
              /\ UNCHANGED <<exited, exitCode>>
         ELSE /\ Exit(1)
              /\ UNCHANGED copied
    /\ UNCHANGED <<imageRef, clientVars, reqVars, resolveVars, taskVars,
                   pullErr, devMade, chrooted, launched, childCode>>

\* chroot, lines 19-22: os.MkdirAll(dir/dev/null)
ChrootMkdir ==
    /\ pc = "chrootMkdir"
    /\ \E ok \in BOOLEAN :
         IF ok
         THEN /\ devMade' = TRUE
              /\ pc' = "chrootChroot"
              /\ UNCHANGED <<exited, exitCode>>
         ELSE /\ Exit(1)
              /\ UNCHANGED devMade
    /\ UNCHANGED <<imageRef, clientVars, reqVars, resolveVars, taskVars,
                   pullErr, copied, chrooted, launched, childCode>>

\* chroot, lines 23-27: syscall.Chroot(dir)
ChrootChroot ==
    /\ pc = "chrootChroot"
    /\ \E ok \in BOOLEAN :
         IF ok
         THEN /\ chrooted' = TRUE
              /\ pc' = "run"
              /\ UNCHANGED <<exited, exitCode>>
         ELSE /\ Exit(1)
              /\ UNCHANGED chrooted
    /\ UNCHANGED <<imageRef, clientVars, reqVars, resolveVars, taskVars,
                   pullErr, copied, devMade, launched, childCode>>

\* main, lines 125-136: cmd.Run starts the command; a start failure leaves
\* cmd.ProcessState nil
Launch ==
    /\ pc = "run"
    /\ \E ok \in BOOLEAN :
         IF ok
         THEN /\ launched' = TRUE
              /\ pc' = "childRunning"
              /\ UNCHANGED <<exited, exitCode>>
         ELSE /\ Exit(NoExitCode)
              /\ UNCHANGED launched
    /\ UNCHANGED <<imageRef, clientVars, reqVars, resolveVars, taskVars,
                   pullErr, copied, devMade, chrooted, childCode>>

\* main exiting with status 1 whenever cmd.Run returns an error
ChildExitsOne ==
    /\ pc = "childRunning"
    /\ \E c \in ChildCodes \cup {NoExitCode} :
         /\ childCode' = c
         /\ IF c = 0 THEN Exit(0) ELSE Exit(1)
    /\ UNCHANGED <<imageRef, clientVars, reqVars, resolveVars, taskVars,
                   pullErr, copied, devMade, chrooted, launched>>

\* main, lines 132-137: cmd.Run waits for the command; a nil error lets
\* main return, any other exits with ProcessState.ExitCode()
ChildExits ==
    /\ pc = "childRunning"
    /\ \E c \in ChildCodes \cup {NoExitCode} :
         /\ childCode' = c
         /\ Exit(c)
    /\ UNCHANGED <<imageRef, clientVars, reqVars, resolveVars, taskVars,
                   pullErr, copied, devMade, chrooted, launched>>

TaskStep ==
    \E i \in Tasks :
        \/ TaskSelect(i)
        \/ TaskRequest(i)
        \/ TaskResponse(i)
        \/ TaskCreate(i)
        \/ TaskCopy(i)
        \/ TaskExtract(i)
        \/ TaskRemove(i)

Next ==
    \/ MkdirTemp
    \/ NewClient
    \/ Authorize
    \/ GetLayersFetch
    \/ GetLayersDecide
    \/ FromManifestsFetch
    \/ FromManifestsDecide
    \/ Spawn
    \/ TaskStep
    \/ Wait
    \/ ChrootCopy
    \/ ChrootMkdir
    \/ ChrootChroot
    \/ Launch
    \/ ChildExits

Spec == Init /\ [][Next]_vars

\* the image reference reaches the requests' text and no guard, so in the
\* fair runs one reference stands for all of them
FairInit == Init /\ imageRef = <<"a", ":", "a">>

\* the run under the scheduling the Go runtime gives it: main and every task
\* goroutine are runnable whenever they have a step to take, and every
\* request and subprocess returns, so a step that can be taken is taken
FairSpec == FairInit /\ [][Next]_vars /\ WF_vars(Next)

\* ================================================================ claims

Range(f) == {f[i] : i \in DOMAIN f}
Distinct(ls) == \A i, j \in DOMAIN ls : ls[i].digest = ls[j].digest => i = j
Issued(i) == Len(blobReqs[i]) > 0
NoBlobRequest == \A i \in Tasks : ~Issued(i)

\* The stage of the run, numbered in the order of the state machine:
\* 1 Unauthenticated, 2 Authenticated, 3 ManifestResolved,
\* 4 LayersDownloading, 5 LayersReady, 6 RootRestricted, 7 ProcessRunning,
\* 8 Done, 9 Failed
StageOf(p, t, l) ==
    IF p \in {"mkdirTemp", "newClient", "authorize"} THEN 1
    ELSE IF p \in {"getLayers", "getLayersDecide", "fromManifests",
                   "fromManifestsDecide"} THEN 2
    ELSE IF p = "pullLayers"
         THEN (IF \A i \in DOMAIN t : t[i] = "unspawned" THEN 3 ELSE 4)
    ELSE IF p \in {"chrootCopy", "chrootMkdir", "chrootChroot"} THEN 5
    ELSE IF p = "run" THEN 6
    ELSE IF p = "childRunning" THEN 7
    ELSE IF l THEN 8
    ELSE 9
Stage == StageOf(pc, tpc, launched)

\* what has succeeded once a stage is held
StageEarned ==
    /\ Stage \in 2..8 => Len(tokenReqs) = 1 /\ token \in Tokens
    /\ Stage \in 3..8 => layers # <<>> /\ Len(manifestReqs) \in 1..2
    /\ Stage \in 5..8 => pullErr = "" /\ \A i \in Tasks : tpc[i] = "ok"
    /\ Stage \in 6..8 => copied /\ devMade /\ chrooted
    /\ Stage \in 7..8 => launched

\* nothing is asked twice, and nothing of a later stage has been done
\* before its stage is reached (so never, after a failure before it)
NothingAhead ==
    /\ Len(tokenReqs) <= 1
    /\ Len(manifestReqs) <= 2
    /\ \A i, j \in DOMAIN manifestReqs :
           manifestReqs[i] = manifestReqs[j] => i = j
    /\ \A i \in Tasks : Len(blobReqs[i]) <= 1
    /\ Len(manifestReqs) > 0 => Len(tokenReqs) = 1 /\ token \in Tokens
    /\ ~NoBlobRequest => layers # <<>> /\ Len(manifestReqs) > 0
    /\ copied => pullErr = ""
    /\ devMade => copied
    /\ chrooted => devMade
    /\ launched => chrooted

\* C1: the stages are passed in the order Unauthenticated, Authenticated,
\* ManifestResolved, LayersDownloading, LayersReady, RootRestricted,
\* ProcessRunning, Done: every step keeps the stage, enters the next one,
\* or enters Failed; a stage is held only when what precedes it succeeded;
\* no request or step is made twice; once Failed nothing later is done.
C1_StagesInOrder ==
    /\ [](StageEarned /\ NothingAhead)
    /\ [][ \/ Stage' = Stage
           \/ Stage < 8 /\ Stage' = Stage + 1
           \/ Stage < 8 /\ Stage' = 9 ]_vars

\* C1 witness: a run that passed every stage and ended Done
C1_Witness == Stage = 8 /\ exitCode = 0

\* C2: when Pull has returned success, every task ended without error and
\* none was skipped; and if the digests are pairwise distinct, every layer
\* was requested, extracted exactly once (one extraction per digest) and
\* no <digest>.tar is left in the staging directory.
C2_SuccessMeansAllExtracted ==
    pullErr = "" =>
        /\ \A i \in Tasks : tpc[i] = "ok"
        /\ Distinct(layers) =>
              /\ \A i \in Tasks : Issued(i)
              /\ extracted = Tasks
              /\ Cardinality({layers[i].digest : i \in extracted}) = Len(layers)
              /\ tars = {}

\* C2 witness: Pull succeeded on two layers with distinct digests
C2_Witness == pullErr = "" /\ Len(layers) = 2 /\ Distinct(layers)

\* a task that has not yet reached its select statement
BeforeCheck(i) == tpc[i] \in {"unspawned", "spawned"}
\* a task that has not yet handed a blob request to the HTTP client
BeforeCall(i) == tpc[i] \in {"unspawned", "spawned", "checked"}

\* in-flight work is left alone: a task past its check is never skipped,
\* and a step of one task never moves another task
NotInterrupted ==
    \A i \in Tasks :
        /\ ~BeforeCheck(i) /\ tpc[i] # "skipped" => tpc'[i] # "skipped"
        /\ tpc[i] = "inflight" => tpc'[i] \in {"inflight", "create", "failed"}
        /\ tpc[i] = "inflight" /\ tpc'[i] = "failed" =>
               \A j \in Tasks \ {i} : tpc'[j] = tpc[j]

\* C3 as claimed: once the cancellation signal is raised, every task that
\* has not yet started its blob network call ends without issuing one,
\* and tasks whose call is in flight are not interrupted.
C3_Original ==
    [][ /\ cancelled =>
             \A i \in Tasks :
                 BeforeCall(i) => ~Issued(i)' /\ tpc'[i] # "inflight"
        /\ NotInterrupted ]_vars

\* C3 amended: once the cancellation signal is raised, every task that has
\* not yet passed its cancellation check ends without issuing a blob
\* request; a task that passed the check before the signal was raised
\* still issues its request; tasks whose call is in flight are not
\* interrupted.
C3_CancelStopsUnchecked ==
    [][ /\ cancelled =>
             \A i \in Tasks :
                 BeforeCheck(i) =>
                     /\ ~Issued(i)'
                     /\ tpc'[i] \in {"unspawned", "spawned", "skipped"}
        /\ NotInterrupted ]_vars

\* C3 witness: a task has failed, the signal is raised, and another task
\* that reached its check afterwards was skipped without a blob request
C3_Witness ==
    /\ cancelled
    /\ \E i, j \in Tasks :
           tpc[i] = "failed" /\ tpc[j] = "skipped" /\ ~Issued(j)

\* C4: once a layer task has failed, Pull does not return success, the
\* executable is not copied, root is not restricted and the command is
\* not launched, and the exit status, once the process has exited, is 1;
\* and no step ever undoes a completed extraction.
C4_TaskFailureFailsPull ==
    /\ []( (\E i \in Tasks : tpc[i] = "failed") =>
              /\ pullErr # ""
              /\ ~copied /\ ~devMade /\ ~chrooted /\ ~launched
              /\ pc \in {"pullLayers", "exited"}
              /\ exited => exitCode = 1 /\ pullErr \in {"pull layers", "save layer"} )
    /\ [][extracted \subseteq extracted']_vars

\* C4 witness: the process has exited after a task failed, and the
\* extraction of another layer, completed after the failure was raised,
\* is still in place
C4_Witness ==
    /\ exited
    /\ \E i, j \in Tasks : tpc[i] = "failed" /\ i \notin extracted /\ j \in extracted

\* C5: the token request is made at most once; whenever a manifest or
\* blob request has been issued, or the layer phase has begun, exactly one
\* token request has been made and it returned a token; and from then on
\* no further token request is made and the token is not replaced.
C5_TokenBeforeRegistryCalls ==
    /\ []( /\ Len(tokenReqs) <= 1
           /\ (Len(manifestReqs) > 0 \/ ~NoBlobRequest \/ pc = "pullLayers")
                  => Len(tokenReqs) = 1 /\ token \in Tokens )
    /\ [][ pc \notin {"mkdirTemp", "newClient", "authorize"}
              => tokenReqs' = tokenReqs /\ token' = token ]_vars

\* C5 witness: blob requests are in flight after the single token request
C5_Witness ==
    /\ Len(tokenReqs) = 1
    /\ Len(manifestReqs) = 2
    /\ \A i \in Tasks : Issued(i)
    /\ Len(layers) = 2

\* C6: a failed token request makes Pull return the authorize error in
\* that very step, after which no manifest request and no blob request
\* exists; and every manifest or blob request ever issued carries a token
\* the token endpoint returned.
C6_AuthFailureStopsPull ==
    /\ [][ pc = "authorize" /\ pc' # "getLayers"
              => pc' = "exited" /\ pullErr' = "authorize" /\ token' = "" ]_vars
    /\ []( /\ pullErr = "authorize" =>
                 /\ exited /\ exitCode = 1
                 /\ manifestReqs = <<>> /\ NoBlobRequest /\ layers = <<>>
           /\ \A k \in DOMAIN manifestReqs : manifestReqs[k].auth \in Tokens
           /\ \A i \in Tasks :
                  \A k \in DOMAIN blobReqs[i] : blobReqs[i][k].auth \in Tokens )

\* C6 witness: the token request was sent and failed
C6_Witness == pullErr = "authorize" /\ Len(tokenReqs) = 1 /\ exited

Matches(m) == m.platform.os = GOOS /\ m.platform.arch = GOARCH

\* C7: deciding on a manifest list, if some entry matches the running OS
\* and architecture the resolver goes on to the re-fetch with a matching
\* entry of the list and has issued nothing yet; otherwise Pull fails
\* with the unsupported-platform error, leaving one manifest request and
\* no blob request.  The re-fetch issues one request, the second and
\* last, addressed to the matched entry's digest, and on success the
\* layers handed on are those of its response.
C7_ManifestListResolution ==
    /\ [][ pc = "getLayersDecide" /\ Len(mRes.manifests) > 0 =>
             IF \E k \in DOMAIN mRes.manifests : Matches(mRes.manifests[k])
             THEN /\ pc' = "fromManifests"
                  /\ Len(matched') = 1
                  /\ matched'[1] \in Range(mRes.manifests)
                  /\ Matches(matched'[1])
                  /\ manifestReqs' = manifestReqs
             ELSE /\ pc' = "exited"
                  /\ pullErr' = "no manifest found"
                  /\ exitCode' = 1 ]_vars
    /\ [][ pc = "fromManifests" /\ manifestReqs' # manifestReqs =>
             /\ Len(manifestReqs) = 1
             /\ Len(manifestReqs') = 2
             /\ manifestReqs'[1] = manifestReqs[1]
             /\ manifestReqs'[2].repo = name
             /\ manifestReqs'[2].ref = matched[1].digest ]_vars
    /\ [][ pc = "fromManifestsDecide" /\ pc' = "pullLayers" =>
             /\ layers' = mRes.layers
             /\ manifestReqs' = manifestReqs
             /\ Len(manifestReqs) = 2 ]_vars
    /\ []( /\ Len(manifestReqs) <= 2
           /\ pullErr = "no manifest found" =>
                 Len(manifestReqs) = 1 /\ NoBlobRequest /\ exited )

\* C7 witness: a manifest list was resolved through a re-fetch addressed
\* to the digest of its matching entry, and the layer phase runs on the
\* two layers of the second response
C7_Witness ==
    /\ pc = "pullLayers"
    /\ Len(manifestReqs) = 2
    /\ manifestReqs[2].ref = <<"m", "1">>
    /\ Len(layers) = 2

\* C8: deciding on a response whose manifests field is empty, the resolver
\* hands on exactly the response's layers array, in its order, without a
\* further manifest request, unless the array is empty, in which case Pull
\* fails; the re-fetched manifest with an empty layers array fails too;
\* so the layer phase never runs on an empty list.
C8_DirectManifestResolution ==
    /\ [][ pc = "getLayersDecide" /\ Len(mRes.manifests) = 0 =>
             IF Len(mRes.layers) = 0
             THEN /\ pc' = "exited"
                  /\ pullErr' = "no layers found in manifest"
                  /\ layers' = <<>>
             ELSE /\ pc' = "pullLayers"
                  /\ layers' = mRes.layers
                  /\ manifestReqs' = manifestReqs
                  /\ Len(manifestReqs) = 1 ]_vars
    /\ [][ pc = "fromManifestsDecide" /\ Len(mRes.layers) = 0 =>
             /\ pc' = "exited"
             /\ pullErr' = "no layers found in image manifest"
             /\ layers' = <<>> ]_vars
    /\ []( /\ pc = "pullLayers" => Len(layers) > 0
           /\ ~NoBlobRequest => Len(layers) > 0
           /\ DOMAIN tpc = DOMAIN layers )

\* C8 witness: a direct manifest of two different layers is being pulled
C8_Witness ==
    /\ pc = "pullLayers"
    /\ Len(manifestReqs) = 1
    /\ Len(layers) = 2
    /\ layers[1] # layers[2]

\* ref is n:t, with n and t non-empty and free of separators
IsNameTag(ref, n, t) ==
    /\ ref = n \o <<":">> \o t
    /\ n # <<>> /\ t # <<>>
    /\ ":" \notin Range(n) /\ ":" \notin Range(t)
Pieces(ref) == {SubSeq(ref, i, j) : i, j \in 1..Len(ref)}
\* newDockerImageClient has returned (a run that exits before Pull was
\* called failed in os.MkdirTemp and built no client)
ClientBuilt ==
    /\ pc \notin {"mkdirTemp", "newClient"}
    /\ ~(pc = "exited" /\ pullErr = "running")

\* C9: for a reference name:tag the client's name is name and its tag is
\* tag, the token request is scoped to repository name, and the first
\* manifest request is addressed to (name, tag).
C9_NameTagUsed ==
    \A n, t \in Pieces(imageRef) :
        IsNameTag(imageRef, n, t) =>
            /\ ClientBuilt => name = n /\ tag = t
            /\ \A k \in DOMAIN tokenReqs : tokenReqs[k].repo = n
            /\ Len(manifestReqs) > 0 =>
                   manifestReqs[1].repo = n /\ manifestReqs[1].ref = t

\* C10: for a reference without ":" the client's name is the whole
\* reference and its tag is "latest" from construction to the end of the
\* run, and the token request and the first manifest request use them.
C10_DefaultTagLatest ==
    ":" \notin Range(imageRef) =>
        /\ ClientBuilt => name = imageRef /\ tag = Latest
        /\ \A k \in DOMAIN tokenReqs : tokenReqs[k].repo = imageRef
        /\ Len(manifestReqs) > 0 =>
               manifestReqs[1].repo = imageRef /\ manifestReqs[1].ref = Latest

\* C10 witness: a run on a reference without ":" that got to its end
C10_Witness ==
    /\ ":" \notin Range(imageRef)
    /\ exited /\ launched
    /\ Len(manifestReqs) > 0

\* C11: once the tool has exited, its status is 1 if it failed before root
\* was restricted (temp dir, auth, manifest resolution, layer pull,
\* executable copy, device path, chroot), nonzero if the command could not
\* be launched, and the launched command's own exit code if it ended with
\* one (nonzero if it ended without an exit code).
C11_ExitStatus ==
    exited =>
        /\ ~chrooted => exitCode = 1
        /\ chrooted /\ ~launched => exitCode # 0
        /\ launched /\ childCode # NoExitCode => exitCode = childCode
        /\ launched /\ childCode = NoExitCode => exitCode # 0
        /\ ~launched => childCode = NoExitCode

\* C11 witness: the command was launched and ended with code 3, and the
\* tool exited with 3
C11_Witness == exited /\ launched /\ childCode = 3 /\ exitCode = 3

\* C12: syscall.Chroot is reached, and root is restricted, only after Pull
\* returned success with every layer extracted, the executable was copied
\* into the staging directory and the device path was made; a failed copy
\* or a failed device-path creation ends the run with status 1 in that
\* step, and such a run never restricts root nor launches the command.
C12_ChrootAfterStaging ==
    /\ []( /\ (pc = "chrootChroot" \/ chrooted) =>
                 /\ pullErr = ""
                 /\ \A i \in Tasks : tpc[i] = "ok"
                 /\ extracted = Tasks
                 /\ Len(layers) > 0
                 /\ copied /\ devMade
           /\ launched => chrooted
           /\ exited /\ (~copied \/ ~devMade) => ~chrooted /\ ~launched )
    /\ [][ \/ pc = "chrootCopy" /\ ~copied'
           \/ pc = "chrootMkdir" /\ ~devMade'
           => pc' = "exited" /\ exitCode' = 1 ]_vars

\* C12 witness: root is restricted, after the pull of two layers and the
\* copy of the executable
C12_Witness == chrooted /\ copied /\ pc = "run" /\ Len(layers) = 2

\* C13: every manifest request and every blob request issued carries as
\* its bearer value the client's token, which is a token the token
\* endpoint returned; the token is assigned only by authorize, once, and
\* keeps its value from then on.
C13_BearerIsToken ==
    /\ []( /\ \A k \in DOMAIN manifestReqs :
                  manifestReqs[k].auth = token /\ token \in Tokens
           /\ \A i \in Tasks :
                  \A k \in DOMAIN blobReqs[i] :
                      blobReqs[i][k].auth = token /\ token \in Tokens
           /\ \A i, j \in Tasks :
                  Issued(i) /\ Issued(j) => blobReqs[i][1].auth = blobReqs[j][1].auth )
    /\ [][ token' # token =>
              pc = "authorize" /\ token = "" /\ token' \in Tokens ]_vars

\* C13 witness: two manifest requests and two blob requests were issued,
\* all under the token the endpoint returned
C13_Witness ==
    /\ token = "tk2"
    /\ Len(manifestReqs) = 2
    /\ Len(layers) = 2
    /\ \A i \in Tasks : Issued(i) /\ blobReqs[i][1].auth = "tk2"

\* C14: the second manifest request carries as its Accept header the
\* mediaType of the matched manifest-list entry.
C14_AcceptIsEntryMediaType ==
    Len(manifestReqs) = 2 /\ matched # <<>> =>
        manifestReqs[2].accept = matched[1].mediaType

\* m is the first entry of ms, in list order, that matches the platform
IsFirstMatch(ms, m) ==
    \E k \in DOMAIN ms :
        /\ ms[k] = m
        /\ Matches(ms[k])
        /\ \A j \in 1..(k - 1) : ~Matches(ms[j])

\* C15: the entry the resolver settles on, and whose digest the re-fetch
\* is addressed to, is the first entry of the manifest list, in list
\* order, whose os and architecture equal the running ones, however many
\* entries match and wherever they stand.
C15_FirstMatchWins ==
    /\ [][ pc = "getLayersDecide" /\ pc' = "fromManifests" =>
              Len(matched') = 1 /\ IsFirstMatch(mRes.manifests, matched'[1]) ]_vars
    /\ []( pc = "fromManifests" =>
              Len(matched) = 1 /\ IsFirstMatch(mRes.manifests, matched[1]) )
    /\ [][ pc = "fromManifests" /\ manifestReqs' # manifestReqs =>
              \E m \in Range(mRes.manifests) :
                  /\ IsFirstMatch(mRes.manifests, m)
                  /\ manifestReqs'[Len(manifestReqs')].ref = m.digest ]_vars

\* C15 witness: a list of two matching entries with different digests,
\* resolved to the one that stands first
C15_Witness ==
    /\ pc = "fromManifests"
    /\ Len(mRes.manifests) = 2
    /\ Matches(mRes.manifests[1]) /\ Matches(mRes.manifests[2])
    /\ mRes.manifests[1].digest = <<"m", "2">>
    /\ mRes.manifests[2].digest = <<"m", "1">>
    /\ matched[1].digest = <<"m", "2">>

\* the moves of a layer task, in the order of the code
TaskMoves ==
    { <<"unspawned", "spawned">>,
      <<"spawned", "checked">>, <<"spawned", "skipped">>,
      <<"checked", "inflight">>, <<"checked", "failed">>,
      <<"inflight", "create">>, <<"inflight", "failed">>,
      <<"create", "copy">>, <<"create", "failed">>,
      <<"copy", "extract">>, <<"copy", "failed">>,
      <<"extract", "remove">>, <<"extract", "failed">>,
      <<"remove", "ok">>, <<"remove", "failed">> }

\* C16: a layer task takes its steps in the order blob request, 200
\* response, creation of <digest>.tar, write, extraction, removal: the
\* archive is created only after the response to the task's own request,
\* under the layer's digest; an extraction completes only after the write
\* has finished; an archive is removed only by a task whose extraction
\* has succeeded; and a step that fails ends the task, changes nothing
\* else, and the task takes no further step.
C16_TaskStepOrder ==
    /\ [][ \A i \in Tasks :
             /\ tpc'[i] # tpc[i] => <<tpc[i], tpc'[i]>> \in TaskMoves
             /\ tpc[i] \in Finished => tpc'[i] = tpc[i]
             /\ tpc'[i] = "create" => Issued(i)
             /\ i \in created' \ created =>
                    /\ tpc[i] = "create" /\ tpc'[i] = "copy"
                    /\ tars' = tars \cup {layers[i].digest}
             /\ i \in extracted' \ extracted =>
                    /\ tpc[i] = "extract" /\ tpc'[i] = "remove"
                    /\ i \in created
                    /\ layers[i].digest \in tars
             /\ tpc[i] # "failed" /\ tpc'[i] = "failed" =>
                    /\ created' = created /\ extracted' = extracted
                    /\ tars' = tars /\ blobReqs' = blobReqs ]_vars
    /\ [][ \A dg \in tars \ tars' :
             \E i \in Tasks :
                 /\ layers[i].digest = dg
                 /\ tpc[i] = "remove" /\ tpc'[i] = "ok"
                 /\ i \in extracted ]_vars
    /\ []( \A i \in Tasks :
             /\ tpc[i] \in {"copy", "extract", "remove", "ok"} => i \in created
             /\ tpc[i] \in {"remove", "ok"} => i \in extracted
             /\ i \in extracted => i \in created
             /\ i \in created => Issued(i) )

\* C16 witness: one task went through all its steps, another failed
\* after creating its archive and before extracting it
C16_Witness ==
    \E i, j \in Tasks :
        /\ tpc[i] = "ok"
        /\ tpc[j] = "failed" /\ j \in created /\ j \notin extracted

\* C17: nothing orders or serialises the extractions.  Whenever a task's
\* archive is written, its extraction can complete in the next step,
\* whatever the other tasks have done (so a later layer's can complete
\* before an earlier layer's); and a task whose write is done can enter its
\* extraction while another task's extraction is in progress.
C17_ExtractionUnordered ==
    \A i \in Tasks :
        /\ tpc[i] = "extract" /\ layers[i].digest \in tars =>
               ENABLED (TaskExtract(i) /\ i \in extracted')
        /\ tpc[i] = "copy" =>
               ENABLED (TaskCopy(i) /\ tpc'[i] = "extract")

\* C17 witness: the second layer is extracted while the extraction of the
\* first, started before, has not completed
C17_Witness ==
    /\ Len(layers) = 2
    /\ Distinct(layers)
    /\ tpc[1] = "extract" /\ 1 \notin extracted
    /\ 2 \in extracted

\* the extractions of two layers in progress at the same time
C17_Overlap ==
    /\ Len(layers) = 2
    /\ tpc[1] = "extract" /\ tpc[2] = "extract"

\* C18: once Pull has returned, every layer task has returned, and from
\* then on (executable copy, chroot, launch, exit) no task takes a step
\* and nothing is downloaded, written, extracted or removed.
C18_PullReturnsAfterTasks ==
    /\ []( pullErr # "running" => \A i \in Tasks : tpc[i] \in Finished )
    /\ []( (copied \/ chrooted \/ launched \/ exited) =>
               \A i \in Tasks : tpc[i] \in Finished )
    /\ [][ pullErr # "running" =>
               UNCHANGED <<tpc, blobReqs, tars, created, extracted,
                           cancelled, egErr>> ]_vars

\* C18 witness: the process exited with status 1 after a pull in which one
\* task failed and the other ran to its end
C18_Witness ==
    /\ exited /\ exitCode = 1
    /\ pullErr \in {"pull layers", "save layer"}
    /\ \E i, j \in Tasks : tpc[i] = "failed" /\ tpc[j] = "ok"

\* a removal is made by a task in its removal step, after its own
\* extraction, on the archive it alone created
RemovedByCreator ==
    \A dg \in tars \ tars' :
        \E i \in Tasks :
            /\ layers[i].digest = dg
            /\ tpc[i] = "remove" /\ tpc'[i] = "ok"
            /\ i \in created /\ i \in extracted
            /\ \A j \in created : layers[j].digest = dg => j = i

\* after a failed pull: the archive a task created and did not get
\* extracted is still there, and a skipped task created none
LeftoversAfterFailure ==
    pullErr \in {"pull layers", "save layer"} =>
        \A i \in Tasks :
            /\ tpc[i] = "failed" /\ i \in created /\ i \notin extracted =>
                   layers[i].digest \in tars
            /\ tpc[i] = "skipped" =>
                   i \notin created /\ ~Issued(i) /\ i \notin extracted

\* C19 as claimed: an archive is removed only by the task that created it
\* and only after that task's extraction succeeded; after a failed pull
\* the archive of a task whose write or extraction failed is still
\* present, and a skipped task has created no archive.
C19_Original ==
    /\ [][RemovedByCreator]_vars
    /\ []LeftoversAfterFailure

\* C19 amended: the same, for layer lists whose digests are pairwise
\* distinct.
C19_ArchiveRemovedByOwner ==
    /\ [][Distinct(layers) => RemovedByCreator]_vars
    /\ [](Distinct(layers) => LeftoversAfterFailure)

\* C19 witness: after a failed pull of two different layers, the archive of
\* the task that failed between creation and extraction is in the staging
\* directory and the other task's archive was removed
C19_Witness ==
    /\ exited
    /\ Distinct(layers)
    /\ \E i, j \in Tasks :
           /\ tpc[i] = "failed" /\ i \in created /\ i \notin extracted
           /\ layers[i].digest \in tars
           /\ tpc[j] = "ok" /\ layers[j].digest \notin tars

\* C20: every run ends with the process exited (Done with the child's
\* status, or Failed with status 1), and the wait on the layer tasks always
\* returns, also after a task failed while others were in flight or skipped.
C20_RunTerminates ==
    /\ <>exited
    /\ [][ pc = "pullLayers" /\ pc' # "pullLayers" =>
               /\ pullErr' # "running"
               /\ \A i \in Tasks : tpc[i] \in Finished ]_vars

\* C20 witness: the process exited with status 1 after a pull in which one
\* task failed and the other was skipped by the cancellation
C20_Witness ==
    /\ exited /\ exitCode = 1
    /\ \E i, j \in Tasks : tpc[i] = "failed" /\ tpc[j] = "skipped"

====
